---- MODULE Spec2Model ----
(***************************************************************************)
(* Model of src/index.tsx: the App component of a camera-to-speech tool.   *)
(*                                                                         *)
(* The component's React state (isLoading, description, error), the audio  *)
(* element used by the primary text-to-speech backend, the platform        *)
(* speechSynthesis queue used by the secondary backend, the camera stream  *)
(* and the suspended captureAndDescribe continuations are the state.  One  *)
(* action stands for each event handler or promise continuation, run to    *)
(* its next suspension point (JavaScript runs a callback to completion).   *)
(* React commits the state updates of a handler before the next event is   *)
(* dispatched, so the closure value of isLoading seen by a click is the    *)
(* committed one.                                                          *)
(***************************************************************************)
EXTENDS Integers, Sequences, FiniteSets, TLC

VARIABLES
    isLoading,      \* useState(false), line 7: the in-flight flag
    description,    \* useState(''),    line 8
    error,          \* useState(''),    line 9
    voice,          \* useState(null),  line 10: the Voice Preference
    voices,         \* the list window.speechSynthesis.getVoices() returns
    phase,          \* "init" before the mount effect, "mounted", "unmounted"
    cam,            \* getUserMedia: "idle", "pending", "granted", "denied", "unsupported"
    tracks,         \* the tracks of the acquired MediaStream: "none", "live", "stopped"
    srcObject,      \* videoRef.current.srcObject holds the stream
    readyState,     \* video.readyState, 0..4
    onvoiceschanged,\* window.speechSynthesis.onvoiceschanged is set
    outstanding,    \* number of generateContent calls awaiting their response
    att,            \* the primary attempts made by speak, in call order, each with
                    \*   text:      the text speak closed over
                    \*   play:      its play() promise, "pending", "started" or "rejected"
                    \*   listening: its onErrorHandler is registered on the audio element
                    \*   current:   audio.src is its url
                    \*   localCalls, listenerRuns (history): speakLocally calls made
                    \*              as its fallback, runs of its onErrorHandler
    audioState,     \* the audio element's load: "empty", "loading", "playing", "failed"
    synth,          \* speechSynthesis queue: texts of the utterances speaking or queued
    interrupted,    \* utterances removed by cancel() whose error event is still to fire
    synthOK,        \* constructing and speaking an utterance does not throw
    cycleSpeaks,    \* history: texts speak was called with by the latest cycle
    cycleInfers,    \* history: generateContent calls made by the latest cycle
    lastText,       \* history: text of the latest inference response
    lastSpoken,     \* history: text of the latest non-empty speak call
    lastLocal,      \* history: text speakLocally was last called with since then, or ""
    lastOp          \* history: the step of the component that ran last ("Event" for a
                    \* callback of the camera, the audio element or the synthesizer)

vars == <<isLoading, description, error, voice, voices, phase, cam, tracks, srcObject, readyState,
          onvoiceschanged, outstanding, att, audioState, synth, interrupted, synthOK,
          cycleSpeaks, cycleInfers, lastText, lastSpoken, lastLocal, lastOp>>

\* ---------------------------------------------------------------- bounds

\* A cycle makes up to two primary attempts; a new cycle is started only while
\* the attempts that can still act (pending play() promise or registered
\* listener) leave room for them under this bound.
MaxAttempts == 2

\* ------------------------------------------------------------- constants

MsgAnalyzing == "Menganalisis..."
MsgNotReady == "Kamera belum siap. Mohon tunggu sejenak dan coba lagi."
MsgInferenceFailed == "Maaf, saya tidak dapat mendeskripsikan gambar. Silakan coba lagi."
MsgCameraDenied == "Tidak dapat mengakses kamera. Silakan periksa izin browser Anda."
MsgCameraUnsupported == "Browser Anda tidak mendukung akses kamera."
MsgUtteranceError == "Gagal mengucapkan deskripsi. Fitur suara mungkin tidak didukung."
MsgSynthUnavailable == "Fitur suara tidak tersedia di browser ini."

\* video.readyState >= 2 (HAVE_CURRENT_DATA), line 140
HaveCurrentData == 2

\* Values of HTMLMediaElement.readyState the model draws: below, just below and at
\* the threshold of line 140 (every value from 2 up takes the same branch)
ReadyStates == {0, 1, 2}

\* response.text of a successful generateContent call; "" is a response without text
ResponseTexts == {"", "Ada meja di depan Anda"}

\* Language tags, as the characters startsWith and === compare
TagIdID == <<"i", "d", "-", "I", "D">>

TagIdUnderscore == <<"i", "d", "_", "I", "D">>

TagEnUS == <<"e", "n", "-", "U", "S">>

\* The prefix of line 82: v.lang.startsWith('id')
TagPrefixId == <<"i", "d">>

\* SpeechSynthesisVoice objects of the platform; NoVoice is null
NoVoice == [name |-> "", lang |-> <<>>]

VoiceEnglish == [name |-> "English", lang |-> TagEnUS]

VoiceIndonesianA == [name |-> "Indonesia A", lang |-> TagIdUnderscore]

VoiceIndonesianB == [name |-> "Indonesia B", lang |-> TagIdID]

\* The lists the platform may announce: no Indonesian voice, a voice whose tag
\* only starts with id, and such a voice ahead of one tagged exactly id-ID.
\* Before the first announcement getVoices() returns the empty list.
VoiceLists ==
    {<<VoiceEnglish>>, <<VoiceEnglish, VoiceIndonesianA>>,
     <<VoiceIndonesianA, VoiceIndonesianB>>}

\* ------------------------------------------------- the state as a record

Cur ==
    [isLoading |-> isLoading, description |-> description, error |-> error,
     voice |-> voice, voices |-> voices,
     phase |-> phase, cam |-> cam, tracks |-> tracks, srcObject |-> srcObject,
     readyState |-> readyState, onvoiceschanged |-> onvoiceschanged,
     outstanding |-> outstanding, att |-> att, audioState |-> audioState,
     synth |-> synth, interrupted |-> interrupted, synthOK |-> synthOK,
     cycleSpeaks |-> cycleSpeaks, cycleInfers |-> cycleInfers,
     lastText |-> lastText, lastSpoken |-> lastSpoken, lastLocal |-> lastLocal,
     lastOp |-> lastOp]

Commit(s) ==
    /\ isLoading' = s.isLoading
    /\ description' = s.description
    /\ error' = s.error
    /\ voice' = s.voice
    /\ voices' = s.voices
    /\ phase' = s.phase
    /\ cam' = s.cam
    /\ tracks' = s.tracks
    /\ srcObject' = s.srcObject
    /\ readyState' = s.readyState
    /\ onvoiceschanged' = s.onvoiceschanged
    /\ outstanding' = s.outstanding
    /\ att' = s.att
    /\ audioState' = s.audioState
    /\ synth' = s.synth
    /\ interrupted' = s.interrupted
    /\ synthOK' = s.synthOK
    /\ cycleSpeaks' = s.cycleSpeaks
    /\ cycleInfers' = s.cycleInfers
    /\ lastText' = s.lastText
    /\ lastSpoken' = s.lastSpoken
    /\ lastLocal' = s.lastLocal
    /\ lastOp' = s.lastOp

\* ------------------------------------------------------- state setters
\* React drops an update made to a component that has been unmounted.

setIsLoading(s, b) == IF s.phase = "unmounted" THEN s ELSE [s EXCEPT !.isLoading = b]

setDescription(s, t) == IF s.phase = "unmounted" THEN s ELSE [s EXCEPT !.description = t]

setError(s, m) == IF s.phase = "unmounted" THEN s ELSE [s EXCEPT !.error = m]

setVoice(s, v) == IF s.phase = "unmounted" THEN s ELSE [s EXCEPT !.voice = v]

\* ------------------------------------------------------ speech backends

\* window.speechSynthesis.cancel(): empties the queue; every removed utterance
\* gets an error event ("canceled" or "interrupted") later.
synthCancel(s) ==
    [s EXCEPT !.synth = <<>>, !.interrupted = s.interrupted \/ s.synth # <<>>]

\* speakLocally, lines 19-37
speakLocally(s, text) ==
    IF text = "" THEN s
    ELSE LET c == [synthCancel(s) EXCEPT !.lastLocal = text]
         IN IF ~s.synthOK THEN setError(c, MsgSynthUnavailable)
            ELSE [c EXCEPT !.synth = Append(@, text)]

\* The fallback call made for attempt i by its onErrorHandler (line 58) or by
\* the catch of its play() promise (line 73): the text is the one speak closed over.
fallback(s, i) ==
    speakLocally([s EXCEPT !.att[i].localCalls = @ + 1], s.att[i].text)

\* An attempt can still act while its play() promise is pending or its
\* onErrorHandler is registered; after that nothing refers to its closures.
live(a) == a.play = "pending" \/ a.listening

\* The attempts that can no longer act are forgotten (their closures are garbage);
\* the others keep their order.
collect(s) == [s EXCEPT !.att = SelectSeq(@, live)]

\* lines 56-68: a new attempt; its url replaces audio.src
newAttempt(text) ==
    [text |-> text, play |-> "pending", listening |-> TRUE, current |-> TRUE,
     localCalls |-> 0, listenerRuns |-> 0]

\* speak without the empty-text return of lines 41-44
speakNoEmptyCheck(s, text) ==
    LET c == [synthCancel(s) EXCEPT !.lastSpoken = text, !.lastLocal = ""]
    IN IF c.phase # "mounted"
       THEN speakLocally(c, text)
       ELSE [c EXCEPT !.att = Append([i \in 1..Len(@) |-> [@[i] EXCEPT !.current = FALSE]],
                                     newAttempt(text)),
                      !.audioState = "loading"]

\* speak, lines 40-75.  audioRef.current is the audio element while the component
\* is mounted and null afterwards.
speak(s, text) ==
    IF text = "" THEN s
    ELSE LET c == [synthCancel(s) EXCEPT !.lastSpoken = text, !.lastLocal = ""]
         IN IF c.phase # "mounted"
            THEN speakLocally(c, text)
            ELSE [c EXCEPT !.att = Append([i \in 1..Len(@) |-> [@[i] EXCEPT !.current = FALSE]],
                                          newAttempt(text)),
                           !.audioState = "loading"]

\* The listeners of the audio element's error event run in registration order,
\* from attempt i on; each was added with { once: true } (line 62) and is removed
\* as it runs.
RECURSIVE runListeners(_, _)
runListeners(s, i) ==
    IF i > Len(s.att) THEN s
    ELSE IF s.att[i].listening
         THEN runListeners(fallback([s EXCEPT !.att[i].listening = FALSE,
                                              !.att[i].listenerRuns = @ + 1], i), i + 1)
         ELSE runListeners(s, i + 1)

\* ------------------------------------------------ captureAndDescribe parts

\* The guard of line 130 left out: a click always starts a cycle
busyNever(s) == FALSE

\* line 130: if (isLoading) return;
busy(s) == s.isLoading

\* The readiness test of line 140 off by one: readyState >= 1
captureReadyTooEarly(s) == s.phase = "mounted" /\ s.readyState >= HaveCurrentData - 1

\* line 140: video && canvas && video.readyState >= 2 (both refs are set while mounted)
captureReady(s) == s.phase = "mounted" /\ s.readyState >= HaveCurrentData

\* speak as called from captureAndDescribe
cycleSpeak(s, text) == speak([s EXCEPT !.cycleSpeaks = Append(@, text)], text)

\* lines 132-135
cycleStart(s) ==
    LET a == setIsLoading([s EXCEPT !.cycleSpeaks = <<>>, !.cycleInfers = 0], TRUE)
        b == setError(setDescription(a, ""), "")
    IN cycleSpeak(b, MsgAnalyzing)

\* Line 186 left out: the flag stays set
cycleEndMissing(s) == s

\* line 186
cycleEnd(s) == setIsLoading(s, FALSE)

\* The call of lines 165-168 made without await: the function runs on to line 186
cycleInferNotAwaited(s) ==
    setIsLoading([s EXCEPT !.outstanding = @ + 1, !.cycleInfers = @ + 1,
                           !.lastOp = "TriggerInfer"], FALSE)

\* The cycle waiting for the playback of line 135 instead of going on to the
\* call of lines 165-168
cycleInferAfterPlayback(s) == [s EXCEPT !.lastOp = "TriggerInfer"]

\* lines 165-168: the call is made and the function suspends at the await
cycleInfer(s) ==
    [s EXCEPT !.outstanding = @ + 1, !.cycleInfers = @ + 1, !.lastOp = "TriggerInfer"]

\* lines 141-142 with a null 2d context: the if has no else branch; then line 186
cycleNoContext(s) == cycleEnd([s EXCEPT !.lastOp = "TriggerNoContext"])

\* lines 181-186
cycleNotReady(s) ==
    cycleEnd(cycleSpeak(setError([s EXCEPT !.lastOp = "TriggerNotReady"], MsgNotReady),
                        MsgNotReady))

\* lines 170-172, then line 186
cycleSuccess(s, text) ==
    LET a == [s EXCEPT !.outstanding = @ - 1, !.lastText = text,
                       !.lastOp = "InferenceResolve"]
    IN cycleEnd(cycleSpeak(setDescription(a, text), text))

\* The catch of lines 174-179 retrying the call instead of reporting the failure
cycleFailureRetries(s) ==
    [s EXCEPT !.cycleInfers = @ + 1, !.lastOp = "InferenceReject"]

\* lines 174-179, then line 186
cycleFailure(s) ==
    LET a == [s EXCEPT !.outstanding = @ - 1, !.lastOp = "InferenceReject"]
    IN cycleEnd(cycleSpeak(setError(a, MsgInferenceFailed), MsgInferenceFailed))

\* captureAndDescribe from its call to its first suspension or its return
captureAndDescribe(s, context) ==
    IF busy(s) THEN [s EXCEPT !.lastOp = "TriggerIgnored"]
    ELSE LET a == cycleStart(s)
         IN IF captureReady(a)
            THEN IF context THEN cycleInfer(a) ELSE cycleNoContext(a)
            ELSE cycleNotReady(a)

\* ------------------------------------------------------------ the effect

\* String.prototype.startsWith
startsWith(tag, prefix) ==
    /\ Len(tag) >= Len(prefix)
    /\ SubSeq(tag, 1, Len(prefix)) = prefix

\* line 82, first find: v.lang === 'id-ID'
isExact(v) == v.lang = TagIdID

\* line 82, second find: v.lang.startsWith('id')
isPrefixed(v) == startsWith(v.lang, TagPrefixId)

\* Array.prototype.find with the test of isExact: the first match, or NoVoice
findExact(list) ==
    IF \E i \in 1..Len(list) : isExact(list[i])
    THEN list[CHOOSE i \in 1..Len(list) :
                /\ isExact(list[i])
                /\ \A j \in 1..(i - 1) : ~isExact(list[j])]
    ELSE NoVoice

\* Array.prototype.find with the test of isPrefixed
findPrefixed(list) ==
    IF \E i \in 1..Len(list) : isPrefixed(list[i])
    THEN list[CHOOSE i \in 1..Len(list) :
                /\ isPrefixed(list[i])
                /\ \A j \in 1..(i - 1) : ~isPrefixed(list[j])]
    ELSE NoVoice

\* line 82 with the two finds in the other order
indonesianVoicePrefixFirst(list) ==
    IF findPrefixed(list) # NoVoice THEN findPrefixed(list) ELSE findExact(list)

\* line 82: find(exact) || find(prefixed)
indonesianVoice(list) ==
    IF findExact(list) # NoVoice THEN findExact(list) ELSE findPrefixed(list)

\* loadVoices without the test of line 83
loadVoicesResetting(s) == setVoice(s, indonesianVoice(s.voices))

\* loadVoices, lines 80-86
loadVoices(s) ==
    IF indonesianVoice(s.voices) # NoVoice
    THEN setVoice(s, indonesianVoice(s.voices))
    ELSE s

\* setupCamera, lines 92-113, up to the await of getUserMedia
setupCamera(s, supported) ==
    IF supported THEN [s EXCEPT !.cam = "pending"]
    ELSE speak(setError([s EXCEPT !.cam = "unsupported"], MsgCameraUnsupported),
               MsgCameraUnsupported)

\* lines 99-101: the stream is attached if the video element is still there
cameraGranted(s) ==
    [s EXCEPT !.cam = "granted", !.tracks = "live",
              !.srcObject = (s.phase = "mounted"), !.lastOp = "Event"]

\* The catch of lines 102-107 without its speak call
cameraDeniedSilent(s) ==
    setError([s EXCEPT !.cam = "denied", !.lastOp = "Event"], MsgCameraDenied)

\* lines 102-107
cameraDenied(s) ==
    speak(setError([s EXCEPT !.cam = "denied", !.lastOp = "Event"],
                   MsgCameraDenied),
          MsgCameraDenied)

\* The effect's cleanup, lines 117-126: the tracks are stopped if the video
\* element holds a stream; afterwards the component's refs are null.
cleanup(s) ==
    LET a == IF s.srcObject THEN [s EXCEPT !.tracks = "stopped"] ELSE s
        b == synthCancel(a)
    IN [b EXCEPT !.onvoiceschanged = FALSE, !.phase = "unmounted",
                 !.srcObject = FALSE, !.lastOp = "Teardown"]

\* The state a handler starts from: the attempts that could no longer act when
\* the previous handler returned have been collected.
Now == collect(Cur)

\* ------------------------------------------------------------------ Init

Init ==
    /\ isLoading = FALSE
    /\ description = ""
    /\ error = ""
    /\ voice = NoVoice
    /\ voices = <<>>
    /\ phase = "init"
    /\ cam = "idle"
    /\ tracks = "none"
    /\ srcObject = FALSE
    /\ readyState = 0
    /\ onvoiceschanged = FALSE
    /\ outstanding = 0
    /\ att = <<>>
    /\ audioState = "empty"
    /\ synth = <<>>
    /\ interrupted = FALSE
    /\ synthOK \in BOOLEAN
    /\ cycleSpeaks = <<>>
    /\ cycleInfers = 0
    /\ lastText = ""
    /\ lastSpoken = ""
    /\ lastLocal = ""
    /\ lastOp = "Init"

\* --------------------------------------------------------------- actions

\* The mount effect, lines 78-114: the voice callback is registered, loadVoices
\* is called once and setupCamera is started.
Mount ==
    /\ phase = "init"
    /\ \E supported \in BOOLEAN :
         Commit(setupCamera(loadVoices([Now EXCEPT !.phase = "mounted",
                                                   !.onvoiceschanged = TRUE,
                                                   !.lastOp = "Mount"]), supported))

\* getUserMedia resolves with a stream, lines 96-101
CameraGranted ==
    /\ cam = "pending"
    /\ Commit(cameraGranted(Now))

\* getUserMedia rejects, lines 102-107
CameraDenied ==
    /\ cam = "pending"
    /\ Commit(cameraDenied(Now))

\* The video element, playing the attached stream, changes its readyState.
VideoReadyState ==
    /\ phase = "mounted"
    /\ srcObject
    /\ tracks = "live"
    /\ \E r \in ReadyStates :
         /\ r # readyState
         /\ Commit([Now EXCEPT !.readyState = r, !.lastOp = "Event"])

\* The capture button's onClick, lines 129-187 up to the await (or to the return).
Trigger ==
    /\ phase = "mounted"
    /\ isLoading \/ Len(Now.att) + 2 <= MaxAttempts
    /\ \E context \in BOOLEAN : Commit(captureAndDescribe(Now, context))

\* generateContent resolves: the continuation of captureAndDescribe, lines 170-186
InferenceResolve ==
    /\ outstanding > 0
    /\ \E text \in ResponseTexts : Commit(cycleSuccess(Now, text))

\* generateContent rejects: lines 174-186
InferenceReject ==
    /\ outstanding > 0
    /\ Commit(cycleFailure(Now))

\* The play() promise of the current attempt resolves: playback started.
\* speak attaches no handler to the fulfilment, so no code runs.
PlayResolve ==
    /\ audioState = "loading"
    /\ \E i \in 1..Len(Now.att) :
         /\ Now.att[i].current
         /\ Now.att[i].play = "pending"
         /\ Commit([Now EXCEPT !.att[i].play = "started", !.audioState = "playing",
                               !.lastOp = "Event"])

\* A play() promise rejects: the catch of lines 68-74
PlayReject ==
    \E i \in 1..Len(Now.att) :
      /\ Now.att[i].play = "pending"
      /\ Commit(fallback([Now EXCEPT !.att[i].play = "rejected",
                                     !.att[i].listening = FALSE,
                                     !.lastOp = "Event"], i))

\* The audio element fires its error event: every registered onErrorHandler runs.
AudioError ==
    /\ audioState \in {"loading", "playing"}
    /\ Commit(runListeners([Now EXCEPT !.audioState = "failed", !.lastOp = "Event"], 1))

\* The utterance at the head of the synthesis queue is spoken to its end.
UtteranceEnd ==
    /\ synth # <<>>
    /\ Commit([Now EXCEPT !.synth = Tail(@), !.lastOp = "Event"])

\* utterance.onerror, lines 28-31, for the utterance at the head of the queue
UtteranceError ==
    /\ synth # <<>>
    /\ Commit(setError([Now EXCEPT !.synth = Tail(@), !.lastOp = "Event"],
                       MsgUtteranceError))

\* utterance.onerror, lines 28-31, for an utterance that cancel() removed
UtteranceCancelled ==
    /\ interrupted
    /\ Commit(setError([Now EXCEPT !.interrupted = FALSE, !.lastOp = "Event"],
                       MsgUtteranceError))

\* The component unmounts: the effect's cleanup, lines 117-126
Teardown ==
    /\ phase = "mounted"
    /\ Commit(cleanup(Now))

\* The platform announces a voice list: getVoices() returns it from now on, and
\* the voiceschanged event runs the registered callback, loadVoices (line 88).
VoicesChanged ==
    \E list \in VoiceLists :
      /\ list # voices
      /\ LET a == [Now EXCEPT !.voices = list, !.lastOp = "Event"]
         IN Commit(IF a.onvoiceschanged THEN loadVoices(a) ELSE a)

InferenceSettles == InferenceResolve \/ InferenceReject

Next ==
    \/ Mount
    \/ CameraGranted
    \/ CameraDenied
    \/ VideoReadyState
    \/ Trigger
    \/ InferenceResolve
    \/ InferenceReject
    \/ PlayResolve
    \/ PlayReject
    \/ AudioError
    \/ UtteranceEnd
    \/ UtteranceError
    \/ UtteranceCancelled
    \/ Teardown

Spec == Init /\ [][Next]_vars

\* The inference call eventually returns or fails.
LiveSpec == Spec /\ WF_vars(InferenceSettles)

\* The component on a platform that announces voice lists.  The announcements
\* change voices and voice only; the voice an utterance is given (lines 24-26)
\* is not recorded in the synthesis queue.
NextVoices == Next \/ VoicesChanged

VoiceSpec == Init /\ [][NextVoices]_vars

\* ---------------------------------------------------------------- claims

\* Number of speak calls the latest cycle made with text
spoken(text) == Cardinality({k \in 1..Len(cycleSpeaks) : cycleSpeaks[k] = text})

\* The steps in which a cycle runs its last statement, line 186
CycleEnds == {"TriggerNoContext", "TriggerNotReady", "InferenceResolve", "InferenceReject"}

\* C1: a click on the capture button while a cycle is in flight (isLoading set)
\* is a no-op: it starts no inference call, calls speak with nothing and leaves
\* isLoading, description and error as they are; and at no time is more than one
\* inference call outstanding.
C1_BusyTriggerIsNoOp ==
    /\ [](outstanding <= 1)
    /\ [][(isLoading /\ Trigger) =>
            /\ UNCHANGED <<isLoading, description, error, outstanding, cycleInfers>>
            /\ UNCHANGED <<cycleSpeaks, lastSpoken, lastLocal, synth, audioState>>
            /\ att' = Now.att]_vars

C1_Witness == lastOp = "TriggerIgnored" /\ isLoading /\ outstanding = 1

\* C2: at the end of a cycle whose inference call succeeded with text T, the
\* description is T, the error is empty and speak was called with T exactly once
\* in the cycle, whatever speech events interleaved.
C2_SuccessShowsOnlyDescription ==
    (lastOp = "InferenceResolve" /\ phase = "mounted") =>
        /\ description = lastText
        /\ error = ""
        /\ spoken(lastText) = 1

\* C3: at the end of a cycle whose inference call failed, the description is
\* empty, the error is the fixed failure message, speak was called with that
\* message, and the cycle made exactly one inference call.
C3_FailureShowsFixedMessage ==
    (lastOp = "InferenceReject" /\ phase = "mounted") =>
        /\ description = ""
        /\ error = MsgInferenceFailed
        /\ spoken(MsgInferenceFailed) >= 1
        /\ cycleInfers = 1
        /\ outstanding = 0

C3_Witness ==
    /\ lastOp = "InferenceReject"
    /\ phase = "mounted"
    /\ error = MsgInferenceFailed
    /\ cycleSpeaks = <<MsgAnalyzing, MsgInferenceFailed>>

\* C4: a click made while no cycle is in flight and the video's readyState is
\* below 2 makes no inference call, leaves the description empty, sets the error
\* to the fixed camera-not-ready message, calls speak with that message exactly
\* once and ends with isLoading false.
C4_NotReadyCycle ==
    [][(~isLoading /\ readyState < HaveCurrentData /\ Trigger) =>
         /\ outstanding' = outstanding
         /\ cycleInfers' = 0
         /\ description' = ""
         /\ error' = MsgNotReady
         /\ Cardinality({k \in 1..Len(cycleSpeaks') : cycleSpeaks'[k] = MsgNotReady}) = 1
         /\ ~isLoading']_vars

C4_Witness ==
    /\ lastOp = "TriggerNotReady"
    /\ readyState < HaveCurrentData
    /\ error = MsgNotReady
    /\ cycleSpeaks = <<MsgAnalyzing, MsgNotReady>>
    /\ ~isLoading

\* C5: for an attempt of speak whose primary backend failed (its onErrorHandler
\* ran, its play() promise rejected, or both), speakLocally was called as its
\* fallback exactly once, and its onErrorHandler ran at most once.
C5_FallbackExactlyOnce ==
    \A i \in 1..Len(att) :
        (att[i].play = "rejected" \/ att[i].listenerRuns > 0) =>
            /\ att[i].localCalls = 1
            /\ att[i].listenerRuns <= 1

\* C6: the newest speak request preempts the older ones: since the latest speak
\* call the secondary backend was started with no other text than that call's,
\* and no utterance with another text is speaking or queued.
C6_NewestPreempts ==
    /\ lastLocal \in {"", lastSpoken}
    /\ \A k \in 1..Len(synth) : synth[k] = lastSpoken

\* C7: the description and the error are never both non-empty.
C7_DescriptionXorError == ~(description # "" /\ error # "")

\* C8: after the cleanup the camera stream has no live track and the
\* voice-change callback is cleared.
C8_TeardownReleases ==
    phase = "unmounted" => (tracks # "live" /\ ~onvoiceschanged)

\* C9: a cycle that set isLoading eventually sets it back to false (for as long
\* as the component is mounted), given that the inference call returns or fails.
C9_CycleEnds ==
    (isLoading /\ phase = "mounted") ~> (~isLoading \/ phase = "unmounted")

C9_Witness ==
    /\ lastOp = "InferenceResolve"
    /\ phase = "mounted"
    /\ ~isLoading
    /\ cycleInfers = 1

\* C10: when a cycle has run its last statement, the description or the error is
\* non-empty and speak was called with that text during the cycle.
C10_EveryOutcomeUserFacing ==
    (lastOp \in CycleEnds /\ phase = "mounted") =>
        \/ description # "" /\ spoken(description) >= 1
        \/ error # "" /\ spoken(error) >= 1

\* The messages of the capture and inference errors, and those of the speech errors
CycleErrors == {MsgCameraDenied, MsgCameraUnsupported, MsgNotReady, MsgInferenceFailed}

SpeechErrors == {MsgUtteranceError, MsgSynthUnavailable}

\* The step calls speak with text m last: a primary attempt for m is added
\* (the component is mounted whenever the error changes).
SpeaksInStep(m) ==
    /\ Len(att') > Len(Now.att)
    /\ att'[Len(att')].text = m
    /\ lastSpoken' = m

\* C11 as stated: whenever the error is set to a non-empty message, speak is
\* called with that message in the same handler.
C11_EveryErrorSpoken ==
    [][(error' # error /\ error' # "") => SpeaksInStep(error')]_vars

\* C11 as amended: a capture or inference error is spoken by the handler that
\* sets it; a speech error is stored by a handler that makes no speak call.
C11_CycleErrorsSpoken ==
    [][(error' # error /\ error' # "") =>
         /\ error' \in CycleErrors \cup SpeechErrors
         /\ error' \in CycleErrors => SpeaksInStep(error')
         /\ error' \in SpeechErrors =>
              (Len(att') = Len(Now.att) /\ lastSpoken' = lastSpoken)]_vars

C11_Witness ==
    /\ cam = "denied"
    /\ error = MsgCameraDenied
    /\ lastSpoken = MsgCameraDenied
    /\ Len(att) > 0
    /\ att[Len(att)].text = MsgCameraDenied

\* C12: speak("") starts neither backend and changes no speech state: no attempt
\* and no listener is added, and the utterances speaking or queued stay.  The
\* call is the one of line 172 for a response without text.
C12_EmptySpeakIsNoOp ==
    [][(InferenceResolve /\ lastText' = "") =>
         /\ att' = Now.att
         /\ UNCHANGED <<synth, interrupted, audioState, lastSpoken, lastLocal>>]_vars

C12_Witness ==
    /\ lastOp = "InferenceResolve"
    /\ phase = "mounted"
    /\ lastText = ""
    /\ cycleSpeaks = <<MsgAnalyzing, "">>
    /\ synth = <<MsgAnalyzing>>

\* C13: speak does not make the cycle wait for playback.  The only fairness
\* assumed is that the inference call settles: no play() promise need ever
\* settle and the audio element need never fire an event.  A cycle in flight is
\* always suspended at its inference call (never at speak), and it goes on to
\* its last statement, which clears isLoading.
C13_SpeakNeverBlocks ==
    /\ []((isLoading /\ phase = "mounted") => outstanding = 1)
    /\ (outstanding = 1 /\ phase = "mounted")
           ~> ((outstanding = 0 /\ ~isLoading) \/ phase = "unmounted")

C13_Witness ==
    /\ lastOp = "InferenceReject"
    /\ phase = "mounted"
    /\ ~isLoading
    /\ Len(att) = 2
    /\ \A i \in 1..2 : att[i].play = "pending" /\ att[i].listening
    /\ audioState = "loading"

\* C14: at any time at most one onErrorHandler is registered on the audio
\* element, and it is the one of the most recent attempt (the attempt whose url
\* is audio.src), so that no failure runs the fallback of an earlier attempt.
C14_OneListenerOfNewestAttempt ==
    /\ Cardinality({i \in 1..Len(att) : att[i].listening}) <= 1
    /\ \A i \in 1..Len(att) : att[i].listening => (i = Len(att) /\ att[i].current)

\* C15: the steps of a cycle run in order.  The first speak call of a cycle is the
\* analysing notice; while the inference call is outstanding the flag is set, the
\* description is empty and nothing but the notice has been spoken; the second
\* speak call comes after the readiness check (the not-ready message, with no
\* inference call made) or after the inference response (its text, or the failure
\* message), and only with it is the flag cleared.
C15_StepsInOrder ==
    /\ Len(cycleSpeaks) <= 2
    /\ cycleSpeaks # <<>> => cycleSpeaks[1] = MsgAnalyzing
    /\ outstanding > 0 =>
         /\ cycleInfers = 1
         /\ cycleSpeaks = <<MsgAnalyzing>>
         /\ phase = "mounted" => (isLoading /\ description = "")
    /\ (phase = "mounted" /\ isLoading) => outstanding > 0
    /\ Len(cycleSpeaks) = 2 =>
         /\ outstanding = 0
         /\ phase = "mounted" => ~isLoading
         /\ cycleSpeaks[2] = MsgNotReady => cycleInfers = 0
         /\ cycleSpeaks[2] # MsgNotReady =>
              (cycleInfers = 1 /\ cycleSpeaks[2] \in {lastText, MsgInferenceFailed})

C15_Witness ==
    /\ lastOp = "InferenceResolve"
    /\ phase = "mounted"
    /\ lastText # ""
    /\ description = lastText
    /\ cycleSpeaks = <<MsgAnalyzing, lastText>>
    /\ ~isLoading

\* Positions of a voice list whose tag is exactly id-ID
ExactAt(list) == {i \in 1..Len(list) : list[i].lang = <<"i", "d", "-", "I", "D">>}

\* Positions of a voice list whose tag starts with id
IndonesianAt(list) ==
    {i \in 1..Len(list) :
       /\ Len(list[i].lang) >= 2
       /\ list[i].lang[1] = "i"
       /\ list[i].lang[2] = "d"}

\* The step is an announcement the component hears: the startup call of
\* loadVoices, or a change of the list while the component is mounted
Announced ==
    \/ phase = "init" /\ phase' = "mounted"
    \/ phase = "mounted" /\ phase' = "mounted" /\ voices' # voices

\* C16: at startup and on every voices-changed event before teardown the
\* preference is reselected from the announced list: the first voice tagged
\* exactly id-ID if there is one, otherwise the first voice whose tag starts with
\* id; whenever the list has a matching voice the preference is a voice of it.
C16_ReselectedOnAnnouncement ==
    [][Announced =>
         /\ ExactAt(voices') # {} =>
              \E i \in ExactAt(voices') :
                 /\ voice' = voices'[i]
                 /\ \A j \in ExactAt(voices') : i <= j
         /\ (ExactAt(voices') = {} /\ IndonesianAt(voices') # {}) =>
              \E i \in IndonesianAt(voices') :
                 /\ voice' = voices'[i]
                 /\ \A j \in IndonesianAt(voices') : i <= j
         /\ IndonesianAt(voices') # {} =>
              \E i \in 1..Len(voices') : voice' = voices'[i]]_vars

\* A voices-changed event has just announced a list in which a voice tagged
\* id_ID comes before the one tagged id-ID, and the latter is the preference.
C16_Witness ==
    /\ phase = "mounted"
    /\ cam = "pending"
    /\ lastOp = "Event"
    /\ voices = <<VoiceIndonesianA, VoiceIndonesianB>>
    /\ voice = VoiceIndonesianB

\* C17: the secondary backend is invoked for an utterance only after the primary
\* attempt for that utterance failed: an attempt whose onErrorHandler or catch
\* called speakLocally has a rejected play() promise, or was superseded while
\* its play() promise was pending, or is the one whose url the failed audio
\* element holds.
C17_SecondaryOnlyAfterPrimaryFailed ==
    \A i \in 1..Len(att) :
       att[i].localCalls > 0 =>
          \/ att[i].play = "rejected"
          \/ att[i].play = "pending" /\ ~att[i].current
          \/ att[i].current /\ audioState = "failed"

\* C18: once a preference has been selected it is never reset to absent, and an
\* announcement of a list without an Indonesian voice leaves it unchanged.
C18_PreferenceKept ==
    [][voice # NoVoice =>
         /\ voice' # NoVoice
         /\ (voices' # voices /\ IndonesianAt(voices') = {}) => voice' = voice]_vars

\* A voices-changed event has just announced a list without an Indonesian voice
\* and the preference is still the voice selected from an earlier list.
C18_Witness ==
    /\ phase = "mounted"
    /\ cam = "pending"
    /\ lastOp = "Event"
    /\ voices = <<VoiceEnglish>>
    /\ voice = VoiceIndonesianB
====
